---- MODULE Spec2Model ----
(***************************************************************************)
(* Model of ai/wheel_ai.py: the WheelAI vowel purchasing engine.           *)
(*                                                                         *)
(* Strings are sequences of one-character strings.  Floats are exact       *)
(* rationals [num, den]; every comparison the code makes against a         *)
(* threshold is done by cross multiplication.  A dict is a record          *)
(* [keys, val]: keys is the insertion (= iteration) order, val the map.    *)
(* A Python set has no defined iteration order for strings (it follows     *)
(* the per-process string hash), so the iteration order of self.vowels is  *)
(* a permutation fixed when the engine is constructed.                     *)
(***************************************************************************)
EXTENDS Integers, Sequences, FiniteSets, TLC

VARIABLES
  corpus,         \* self.corpus
  vowels,         \* self.vowels, in its iteration order
  board_pattern,  \* the arguments of the calls made on the engine
  used_letters,
  current_money,
  arg_candidates, \* the candidates argument of _vowel_probabilities
  op,             \* the method called last ("__init__" before any call)
  ret,            \* how that call ended
  locals,         \* the local variables of should_buy_vowel when it ended
  prev,           \* how the call before it ended
  calls           \* the number of calls made

vars == <<corpus, vowels, board_pattern, used_letters, current_money,
          arg_candidates, op, ret, locals, prev, calls>>

(***************************************************************************)
(* Characters                                                              *)
(***************************************************************************)
VowelSet == {"A", "E", "I", "O", "U"}

UpperLetters == {"A", "B", "C", "D", "E", "I", "O", "U"}

LowerLetters == {"a", "b"}

\* ord(c) for the characters of the model (ASCII code points)
Ord(c) ==
  CASE c = " "  -> 32
    [] c = "."  -> 46
    [] c = "A"  -> 65
    [] c = "B"  -> 66
    [] c = "C"  -> 67
    [] c = "D"  -> 68
    [] c = "E"  -> 69
    [] c = "I"  -> 73
    [] c = "O"  -> 79
    [] c = "U"  -> 85
    [] c = "["  -> 91
    [] c = "\\" -> 92
    [] c = "]"  -> 93
    [] c = "^"  -> 94
    [] c = "_"  -> 95
    [] c = "a"  -> 97
    [] c = "b"  -> 98
    [] c = "$"  -> 36

\* str.isalpha() on one character
isalpha(c) == c \in UpperLetters \cup LowerLetters

\* str.upper() on one character
upper_char(c) ==
  CASE c = "a" -> "A"
    [] c = "b" -> "B"
    [] OTHER   -> c

\* str.upper()
upper(s) == [i \in 1..Len(s) |-> upper_char(s[i])]

\* str.replace(" ", "")
remove_spaces(s) == SelectSeq(s, LAMBDA c : c # " ")

\* str.count("_")
count_blanks(s) == Len(SelectSeq(s, LAMBDA c : c = "_"))

\* sorted(set of characters): ascending code point
RECURSIVE sorted(_)
sorted(S) ==
  IF S = {} THEN <<>>
  ELSE LET m == CHOOSE x \in S : \A y \in S : Ord(x) <= Ord(y)
       IN  <<m>> \o sorted(S \ {m})

\* the set of characters of a string
chars(s) == {s[i] : i \in 1..Len(s)}

\* v in w
contains(w, v) == v \in chars(w)

(***************************************************************************)
(* Rationals                                                               *)
(***************************************************************************)
Rat(n, d) == [num |-> n, den |-> d]

RatGE(a, b) == a.num * b.den >= b.num * a.den

RatGT(a, b) == a.num * b.den > b.num * a.den

RatEq(a, b) == a.num * b.den = b.num * a.den

(***************************************************************************)
(* The re module, for the expressions _generate_regex can build            *)
(***************************************************************************)
\* re.escape(c) for one character
ReEscapeRaw(c) == <<c>>

re_escape(c) ==
  IF c \in {".", "\\", "]", "[", "^", "$", " "} THEN <<"\\", c>> ELSE <<c>>

\* what re.compile gives: the tokens of a well-formed expression, or
\* re.error
Compiled(toks) == [ok |-> TRUE, toks |-> toks]

CompileError == [ok |-> FALSE, toks |-> <<>>]

\* Parse the items of a character class starting at index i (just after
\* "[" or "[^").  first: no item read yet, so that "]" is a literal.
\* Returns [ok, set, next] where next is the index after the closing "]".
RECURSIVE parse_class(_, _, _, _)
parse_class(rx, i, acc, first) ==
  IF i > Len(rx) THEN [ok |-> FALSE, set |-> acc, next |-> i]
  ELSE IF rx[i] = "]" /\ ~first THEN [ok |-> TRUE, set |-> acc, next |-> i + 1]
  ELSE IF rx[i] = "\\"
       THEN IF i + 1 > Len(rx)
            THEN [ok |-> FALSE, set |-> acc, next |-> i]
            ELSE parse_class(rx, i + 2, acc \cup {rx[i + 1]}, FALSE)
       ELSE parse_class(rx, i + 1, acc \cup {rx[i]}, FALSE)

\* Parse the expression from index i on: the tokens, or CompileError.
RECURSIVE parse_from(_, _)
parse_from(rx, i) ==
  IF i > Len(rx) THEN Compiled(<<>>)
  ELSE
  LET c == rx[i]
      \* the first token (tok) and the index after it (next);
      \* next = 0: the expression is malformed here
      first ==
        IF c = "^" THEN [tok |-> [kind |-> "bol"], next |-> i + 1]
        ELSE IF c = "$" THEN [tok |-> [kind |-> "eol"], next |-> i + 1]
        ELSE IF c = "." THEN [tok |-> [kind |-> "any"], next |-> i + 1]
        ELSE IF c = "\\"
        THEN IF i + 1 > Len(rx) THEN [tok |-> [kind |-> "bad"], next |-> 0]
             ELSE [tok |-> [kind |-> "lit", ch |-> rx[i + 1]], next |-> i + 2]
        ELSE IF c = "["
        THEN LET neg  == i + 1 <= Len(rx) /\ rx[i + 1] = "^"
                 body == parse_class(rx, IF neg THEN i + 2 ELSE i + 1, {}, TRUE)
             IN  IF ~body.ok THEN [tok |-> [kind |-> "bad"], next |-> 0]
                 ELSE [tok |-> [kind |-> IF neg THEN "notin" ELSE "in",
                                set |-> body.set],
                       next |-> body.next]
        ELSE [tok |-> [kind |-> "lit", ch |-> c], next |-> i + 1]
  IN  IF first.next = 0 THEN CompileError
      ELSE LET rest == parse_from(rx, first.next)
           IN  IF rest.ok THEN Compiled(<<first.tok>> \o rest.toks)
               ELSE CompileError

\* re.compile(rx)
re_compile(rx) == parse_from(rx, 1)

\* Match tokens k.. against w at position j (1-based, next char to read).
RECURSIVE match_from(_, _, _, _)
match_from(toks, k, w, j) ==
  IF k > Len(toks) THEN TRUE
  ELSE LET t == toks[k] IN
       CASE t.kind = "bol" -> j = 1 /\ match_from(toks, k + 1, w, j)
         [] t.kind = "eol" -> j = Len(w) + 1 /\ match_from(toks, k + 1, w, j)
         [] t.kind = "any" -> j <= Len(w) /\ match_from(toks, k + 1, w, j + 1)
         [] t.kind = "lit" -> j <= Len(w) /\ w[j] = t.ch
                              /\ match_from(toks, k + 1, w, j + 1)
         [] t.kind = "notin" -> j <= Len(w) /\ w[j] \notin t.set
                                /\ match_from(toks, k + 1, w, j + 1)
         [] t.kind = "in" -> j <= Len(w) /\ w[j] \in t.set
                             /\ match_from(toks, k + 1, w, j + 1)

\* regex.match(w) is not None
re_match(toks, w) == match_from(toks, 1, w, 1)

(***************************************************************************)
(* Python values                                                           *)
(***************************************************************************)
None == "None"

\* how a call ends: it returns a value, or an exception leaves it
Return(v) == [raised |-> FALSE, value |-> v]

Raise(e) == [raised |-> TRUE, value |-> e]

EmptyDict == [keys |-> <<>>, val |-> <<>>]

\* max(d, key=d.get): the first key, in iteration order, whose value no
\* later key exceeds and no earlier key equals
py_max(d) ==
  LET ks == d.keys
      i  == CHOOSE i \in 1..Len(ks) :
              /\ \A j \in 1..Len(ks) : ~RatGT(d.val[ks[j]], d.val[ks[i]])
              /\ \A j \in 1..(i - 1) : RatGT(d.val[ks[i]], d.val[ks[j]])
  IN  ks[i]

\* f"{x:.1%}": x as a percentage with one decimal, here the number of
\* tenths of a percent, rounded half to even
format_pct1(x) ==
  LET n == 1000 * x.num
      q == n \div x.den
      r == n % x.den
  IN  IF 2 * r > x.den \/ (2 * r = x.den /\ q % 2 = 1) THEN q + 1 ELSE q

(***************************************************************************)
(* WheelAI.__init__                                                        *)
(***************************************************************************)
DefaultVowelCost == 250

\* self.general_vowel_freq, in thousandths
general_vowel_freq ==
  [v \in VowelSet |->
     CASE v = "A" -> 82 [] v = "E" -> 127 [] v = "I" -> 70
       [] v = "O" -> 75 [] v = "U" -> 28]

\* the engine after construction: words is what _load_dictionary returned,
\* order the iteration order of set("AEIOU") in this process
WheelAI(words, order) ==
  [vowel_cost |-> DefaultVowelCost, vowels |-> order, corpus |-> words]

(***************************************************************************)
(* PATTERN MATCHING ENGINE                                                 *)
(***************************************************************************)
RECURSIVE regex_body(_, _)
regex_body(clean, exclusion) ==
  IF clean = <<>> THEN <<>>
  ELSE LET c == Head(clean) IN
       (IF c = "_" THEN exclusion
        ELSE IF isalpha(c) THEN <<c>>
        ELSE re_escape(c)) \o regex_body(Tail(clean), exclusion)

_generate_regex(self, pattern, used) ==
  LET clean     == upper(remove_spaces(pattern))
      revealed  == {c \in chars(clean) : isalpha(c)}
      dead      == used \ revealed
      excluded  == revealed \cup dead
      exclusion == IF excluded # {}
                   THEN <<"[", "^">> \o sorted(excluded) \o <<"]">>
                   ELSE <<".">>
  IN  <<"^">> \o regex_body(clean, exclusion) \o <<"$">>

_get_candidates(self, pattern, used) ==
  LET regex == re_compile(_generate_regex(self, pattern, used))
  IN  IF ~regex.ok THEN Raise("re.error")
      ELSE Return(SelectSeq(self.corpus, LAMBDA w : re_match(regex.toks, w)))

(***************************************************************************)
(* PROBABILITY CALCULATIONS                                                *)
(***************************************************************************)
\* the inner loop, over self.vowels, for one word w: c = [keys, n] is the
\* Counter (keys in insertion order, n the counts)
CountWordAll(c, w, vs, used) ==
  LET found == SelectSeq(vs, LAMBDA v : contains(w, v))
  IN  [keys |-> c.keys \o SelectSeq(found, LAMBDA v : v \notin chars(c.keys)),
       n    |-> [v \in VowelSet |->
                   IF v \in chars(found) THEN c.n[v] + 1 ELSE c.n[v]]]

CountWordOccurrences(c, w, vs, used) ==
  LET found == SelectSeq(vs, LAMBDA v : v \notin used /\ contains(w, v))
  IN  [keys |-> c.keys \o SelectSeq(found, LAMBDA v : v \notin chars(c.keys)),
       n    |-> [v \in VowelSet |->
                   IF v \in chars(found)
                   THEN c.n[v] + Len(SelectSeq(w, LAMBDA x : x = v))
                   ELSE c.n[v]]]

count_word(c, w, vs, used) ==
  LET found == SelectSeq(vs, LAMBDA v : v \notin used /\ contains(w, v))
  IN  [keys |-> c.keys \o SelectSeq(found, LAMBDA v : v \notin chars(c.keys)),
       n    |-> [v \in VowelSet |->
                   IF v \in chars(found) THEN c.n[v] + 1 ELSE c.n[v]]]

\* the loop over the candidates, from word k on
RECURSIVE count_words(_, _, _, _, _)
count_words(c, ws, k, vs, used) ==
  IF k > Len(ws) THEN c
  ELSE count_words(count_word(c, ws[k], vs, used), ws, k + 1, vs, used)

_vowel_probabilities(self, candidates, used) ==
  IF candidates = <<>> THEN EmptyDict
  ELSE LET counts == count_words([keys |-> <<>>, n |-> [v \in VowelSet |-> 0]],
                                 candidates, 1, self.vowels, used)
           total  == Len(candidates)
       IN  [keys |-> counts.keys,
            val  |-> [v \in chars(counts.keys) |-> Rat(counts.n[v], total)]]

\* the vowels the loop of _fallback_stats scores, in its order
FallbackKeysAll(vs, used) == vs

fallback_keys(vs, used) == SelectSeq(vs, LAMBDA v : v \notin used)

FallbackStatsKeepSpaces(self, pattern, used) ==
  LET clean  == pattern
      blanks == count_blanks(clean)
      total  == Len(clean)
  IN  IF total = 0 THEN EmptyDict
      ELSE LET density   == Rat(total - blanks, total)
               info_need == Rat(density.den - density.num, density.den)
               ks        == fallback_keys(self.vowels, used)
           IN  [keys |-> ks,
                val  |-> [v \in chars(ks) |->
                            Rat(general_vowel_freq[v] * info_need.num * 2,
                                1000 * info_need.den)]]

_fallback_stats(self, pattern, used) ==
  LET clean  == remove_spaces(pattern)
      blanks == count_blanks(clean)
      total  == Len(clean)
  IN  IF total = 0 THEN EmptyDict
      ELSE LET density   == Rat(total - blanks, total)
               info_need == Rat(density.den - density.num, density.den)
               ks        == fallback_keys(self.vowels, used)
           IN  [keys |-> ks,
                val  |-> [v \in chars(ks) |->
                            Rat(general_vowel_freq[v] * info_need.num * 2,
                                1000 * info_need.den)]]

(***************************************************************************)
(* DECISION ENGINE                                                         *)
(***************************************************************************)
Recommendation(d, v, r, s, c) ==
  [decision |-> d, suggested_vowel |-> v, reason |-> r, strategy |-> s,
   confidence |-> c]

\* 0. Financial constraint: the test
InsufficientOrEqual(self, money) == money <= self.vowel_cost

insufficient_money(self, money) == money < self.vowel_cost

finance_rejection ==
  Recommendation(FALSE, None, <<"Insufficient money to buy a vowel.">>,
                 "Finance", Rat(1, 1))

no_vowels_in_candidates ==
  Recommendation(FALSE, None,
                 <<"Pattern match: No vowels appear in candidates.">>,
                 "Pattern Matching", Rat(9, 10))

no_valid_vowels ==
  Recommendation(FALSE, None, <<"No valid vowels remaining.">>,
                 "Fallback", Rat(1, 1))

\* Decision thresholds of the pattern matching strategy
PatternDecisionStrict(best_vowel, confidence, money) ==
  IF RatGT(confidence, Rat(70, 100))
  THEN Recommendation(TRUE, best_vowel,
                      <<"High probability ", format_pct1(confidence),
                        " from pattern matching.">>,
                      "Pattern Matching", confidence)
  ELSE IF money > 2000 /\ RatGT(confidence, Rat(40, 100))
  THEN Recommendation(TRUE, best_vowel,
         <<"Aggressive strategy enabled by high money and decent odds.">>,
         "Pattern Matching (Aggressive)", confidence)
  ELSE Recommendation(FALSE, best_vowel,
                      <<"Low probability (", format_pct1(confidence),
                        "). Better to spin.">>,
                      "Pattern Matching", confidence)

pattern_decision(best_vowel, confidence, money) ==
  IF RatGE(confidence, Rat(70, 100))
  THEN Recommendation(TRUE, best_vowel,
                      <<"High probability ", format_pct1(confidence),
                        " from pattern matching.">>,
                      "Pattern Matching", confidence)
  ELSE IF money > 2000 /\ RatGT(confidence, Rat(40, 100))
  THEN Recommendation(TRUE, best_vowel,
         <<"Aggressive strategy enabled by high money and decent odds.">>,
         "Pattern Matching (Aggressive)", confidence)
  ELSE Recommendation(FALSE, best_vowel,
                      <<"Low probability (", format_pct1(confidence),
                        "). Better to spin.">>,
                      "Pattern Matching", confidence)

\* Decision threshold of the fallback strategy
FallbackDecisionInclusive(best_vowel, score) ==
  IF RatGE(score, Rat(15, 100))
  THEN Recommendation(TRUE, best_vowel,
         <<"Statistical fallback: vowel likely & puzzle is sparse.">>,
         "Fallback", score)
  ELSE Recommendation(FALSE, best_vowel,
         <<"Statistical fallback indicates low value.">>,
         "Fallback", score)

fallback_decision(best_vowel, score) ==
  IF RatGT(score, Rat(15, 100))
  THEN Recommendation(TRUE, best_vowel,
         <<"Statistical fallback: vowel likely & puzzle is sparse.">>,
         "Fallback", score)
  ELSE Recommendation(FALSE, best_vowel,
         <<"Statistical fallback indicates low value.">>,
         "Fallback", score)

\* should_buy_vowel: how the call ends (result) and the local variables it
\* had bound by then (locals)
should_buy_vowel_run(self, pattern, used, money) ==
  IF insufficient_money(self, money)
  THEN [result |-> Return(finance_rejection), locals |-> [path |-> "finance"]]
  ELSE
  LET got == _get_candidates(self, pattern, used) IN
  IF got.raised THEN [result |-> got, locals |-> [path |-> "raised"]]
  ELSE IF got.value # <<>>
  THEN LET probs == _vowel_probabilities(self, got.value, used)
           lcl   == [path |-> "pattern", candidates |-> got.value,
                     probs |-> probs]
       IN  IF probs.keys = <<>>
           THEN [result |-> Return(no_vowels_in_candidates), locals |-> lcl]
           ELSE LET best_vowel == py_max(probs)
                    confidence == probs.val[best_vowel]
                IN  [result |-> Return(pattern_decision(best_vowel, confidence,
                                                        money)),
                     locals |-> lcl]
  ELSE LET fallback == _fallback_stats(self, pattern, used)
           lcl      == [path |-> "fallback", candidates |-> got.value,
                        fallback |-> fallback]
       IN  IF fallback.keys = <<>>
           THEN [result |-> Return(no_valid_vowels), locals |-> lcl]
           ELSE LET best_vowel == py_max(fallback)
                    score      == fallback.val[best_vowel]
                IN  [result |-> Return(fallback_decision(best_vowel, score)),
                     locals |-> lcl]

should_buy_vowel(self, pattern, used, money) ==
  should_buy_vowel_run(self, pattern, used, money).result

(***************************************************************************)
(* Bounds and inputs                                                       *)
(***************************************************************************)
\* longest board pattern given to should_buy_vowel
MaxLen == 2

\* calls made on one engine, where calls are repeated
MaxCalls == 2

\* longest board pattern of a repeated call
MaxTwiceLen == 2

\* longest board pattern given to _get_candidates
MaxFilterLen == 3

\* longest board pattern given to _fallback_stats
MaxFallbackLen == 3

\* longest candidate list given to _vowel_probabilities
MaxCandidates == 5

\* longest board pattern of a malformed call
MaxMalformedLen == 2

PatternsOver(cs, n) == UNION {[1..k -> cs] : k \in 0..n}

\* the iteration orders set("AEIOU") can have
VowelOrders ==
  {o \in [1..5 -> VowelSet] : \A i, j \in 1..5 : i # j => o[i] # o[j]}

CanonicalOrder == <<"A", "E", "I", "O", "U">>

MoneyValues == {249, 250, 2000, 2001}

\* a word list _load_dictionary can return
DecisionWords ==
  << <<"E","B">>, <<"E","C">>, <<"B","C">>, <<"C","D">>, <<"D","B">>,
     <<"A","B">>, <<"B","A">>, <<"A","C">>, <<"C","A">>, <<"A","D">>,
     <<"D","A">>, <<"A","I">>, <<"A","E">>, <<"B","O","A">> >>

FilterWords ==
  << <<"A">>, <<"A","B">>, <<"E","B">>, <<"B","A">>, <<"B","E">>,
     <<"A","C">>, <<"C","B">>, <<"A","B","E">>, <<"C","A","B">>,
     <<"B","E","E">>, <<"E","C","A">>, <<"A","B","E","C">> >>

ProbabilityWords ==
  << <<"A","E">>, <<"E","E">>, <<"B","C">>, <<"A","B","A">>,
     <<"I","O","U">>, <<"E","B">>, <<"U","B","U">> >>

NoReturn == Return(None)

NoLocals == [path |-> "none"]

\* the engine the calls are made on
this == WheelAI(corpus, vowels)

\* the engine after WheelAI(...), and the arguments its calls will get
Constructed(words, orders, patterns, useds, moneys) ==
  /\ corpus \in words
  /\ vowels \in orders
  /\ board_pattern \in patterns
  /\ used_letters \in useds
  /\ current_money \in moneys
  /\ arg_candidates = <<>>
  /\ op = "__init__"
  /\ ret = NoReturn
  /\ locals = NoLocals
  /\ prev = NoReturn
  /\ calls = 0

engine_vars == <<corpus, vowels, board_pattern, used_letters, current_money>>

(***************************************************************************)
(* Calls of should_buy_vowel                                               *)
(***************************************************************************)
Init ==
  Constructed({DecisionWords}, VowelOrders,
              PatternsOver({"_", " ", "E"}, MaxLen),
              SUBSET VowelSet, MoneyValues)

ShouldBuyVowelCalled ==
  /\ LET run == should_buy_vowel_run(this, board_pattern, used_letters,
                                     current_money)
     IN  ret' = run.result /\ locals' = run.locals
  /\ op' = "should_buy_vowel"
  /\ prev' = ret
  /\ calls' = calls + 1
  /\ UNCHANGED <<engine_vars, arg_candidates>>

\* the first call on the engine
CallShouldBuyVowel == calls = 0 /\ ShouldBuyVowelCalled

\* the same call again, on the same engine
CallShouldBuyVowelAgain ==
  calls > 0 /\ calls < MaxCalls /\ ShouldBuyVowelCalled

Next == CallShouldBuyVowel

Spec == Init /\ [][Next]_vars

InitTwice ==
  Constructed({DecisionWords}, VowelOrders,
              PatternsOver({"_", "E"}, MaxTwiceLen),
              SUBSET VowelSet, MoneyValues)

NextTwice == CallShouldBuyVowel \/ CallShouldBuyVowelAgain

SpecTwice == InitTwice /\ [][NextTwice]_vars

\* used_letters may hold characters that are no letters
InitMalformed ==
  Constructed({DecisionWords}, VowelOrders,
              PatternsOver({"_", "E"}, MaxMalformedLen),
              SUBSET {"E", "\\", "]"}, {249, 250})

SpecMalformed == InitMalformed /\ [][Next]_vars

(***************************************************************************)
(* Calls of the helpers                                                    *)
(***************************************************************************)
\* _get_candidates reads self.corpus only
InitFilter ==
  Constructed({FilterWords}, {CanonicalOrder},
              PatternsOver({"_", " ", ".", "a", "E", "B"}, MaxFilterLen),
              SUBSET {"A", "E", "B", "C"}, {DefaultVowelCost})

CallGetCandidates ==
  /\ calls = 0
  /\ ret' = _get_candidates(this, board_pattern, used_letters)
  /\ op' = "_get_candidates"
  /\ prev' = ret
  /\ calls' = calls + 1
  /\ UNCHANGED <<engine_vars, arg_candidates, locals>>

NextFilter == CallGetCandidates

SpecFilter == InitFilter /\ [][NextFilter]_vars

InitProbabilities ==
  Constructed({ProbabilityWords}, VowelOrders, {<<>>}, SUBSET VowelSet,
              {DefaultVowelCost})

\* called with the first n words of the word list as the candidates
CallVowelProbabilities ==
  /\ calls = 0
  /\ \E n \in 0..MaxCandidates :
       /\ n <= Len(corpus)
       /\ arg_candidates' = SubSeq(corpus, 1, n)
       /\ ret' = Return(_vowel_probabilities(this, SubSeq(corpus, 1, n),
                                             used_letters))
  /\ op' = "_vowel_probabilities"
  /\ prev' = ret
  /\ calls' = calls + 1
  /\ UNCHANGED <<engine_vars, locals>>

NextProbabilities == CallVowelProbabilities

SpecProbabilities == InitProbabilities /\ [][NextProbabilities]_vars

InitFallback ==
  Constructed({DecisionWords}, VowelOrders,
              PatternsOver({"_", " ", ".", "B"}, MaxFallbackLen),
              SUBSET VowelSet, {DefaultVowelCost})

CallFallbackStats ==
  /\ calls = 0
  /\ ret' = Return(_fallback_stats(this, board_pattern, used_letters))
  /\ op' = "_fallback_stats"
  /\ prev' = ret
  /\ calls' = calls + 1
  /\ UNCHANGED <<engine_vars, arg_candidates, locals>>

NextFallback == CallFallbackStats

SpecFallback == InitFallback /\ [][NextFallback]_vars

(***************************************************************************)
(* Properties                                                              *)
(***************************************************************************)
Called == op = "should_buy_vowel"

Affordable == current_money >= DefaultVowelCost

\* board_pattern without its spaces
Clean == SelectSeq(board_pattern, LAMBDA c : c # " ")

Blanks == Cardinality({i \in 1..Len(Clean) : Clean[i] = "_"})

Unused == VowelSet \ used_letters

\* frequency(v) * (b / t) * 2
Score(v, b, t) == Rat(general_vowel_freq[v] * b * 2, 1000 * t)

\* the value a mapping gives v, 0 when v is no key
ProbabilityOf(d, v) == IF v \in chars(d.keys) THEN d.val[v] ELSE Rat(0, 1)

IsFinanceRejection(r) ==
  /\ r.decision = FALSE
  /\ r.suggested_vowel = None
  /\ r.strategy = "Finance"
  /\ RatEq(r.confidence, Rat(1, 1))

\* C1: should_buy_vowel returns the Finance rejection (decision False, vowel
\* None, strategy "Finance", confidence 1.0) when current_money < vowel_cost
\* and never returns strategy "Finance" when current_money >= vowel_cost, for
\* every pattern and used-letter set; so raising the money across vowel_cost
\* with the other arguments fixed only turns a Finance rejection into a
\* non-Finance outcome.
C1_FinanceGate ==
  Called =>
    /\ ~ret.raised
    /\ current_money < DefaultVowelCost => IsFinanceRejection(ret.value)
    /\ current_money >= DefaultVowelCost => ret.value.strategy # "Finance"

C1_Witness ==
  /\ Called
  /\ current_money = DefaultVowelCost
  /\ board_pattern = <<"_", "_">>
  /\ ret.value.strategy = "Pattern Matching"

\* C2: with current_money >= vowel_cost, a non-empty candidate set and a
\* non-empty probability mapping whose maximum is p: accept with "Pattern
\* Matching" exactly when p >= 0.70; otherwise accept with "Pattern Matching
\* (Aggressive)" exactly when current_money > 2000 and p > 0.40; otherwise
\* reject with "Pattern Matching"; always confidence = p and the suggested
\* vowel is a vowel of probability p.
C2_PatternThresholds ==
  (Called /\ Affordable /\ ~ret.raised) =>
    /\ locals.path = "pattern" <=> locals.candidates # <<>>
    /\ (locals.path = "pattern" /\ locals.probs.keys # <<>>) =>
         LET probs == locals.probs
             r     == ret.value
             p     == r.confidence
         IN  /\ r.suggested_vowel \in chars(probs.keys)
             /\ probs.val[r.suggested_vowel] = p
             /\ \A v \in chars(probs.keys) : RatGE(p, probs.val[v])
             /\ IF 100 * p.num >= 70 * p.den
                THEN r.decision /\ r.strategy = "Pattern Matching"
                ELSE IF current_money > 2000 /\ 100 * p.num > 40 * p.den
                THEN r.decision /\ r.strategy = "Pattern Matching (Aggressive)"
                ELSE ~r.decision /\ r.strategy = "Pattern Matching"

C2_Witness ==
  /\ Called
  /\ Affordable
  /\ locals.path = "pattern"
  /\ locals.probs.keys # <<>>
  /\ Len(locals.candidates) = 10
  /\ 10 * ret.value.confidence.num = 7 * ret.value.confidence.den
  /\ ret.value.decision

\* C3: every call of should_buy_vowel returns a Recommendation and never
\* raises, also when used_letters holds characters that are no letters (a
\* backslash, a bracket) and the pattern has a blank.
C3_NeverRaises ==
  Called =>
    /\ ~ret.raised
    /\ DOMAIN ret.value =
         {"decision", "suggested_vowel", "reason", "strategy", "confidence"}

\* C4, as claimed: when exactly one corpus word is the candidate set, every
\* vowel of that word has probability 1 and every other vowel probability 0,
\* whatever used_letters holds.
C4_Original ==
  (Called /\ locals.path = "pattern" /\ Len(locals.candidates) = 1) =>
    \A v \in VowelSet :
      RatEq(ProbabilityOf(locals.probs, v),
            IF contains(locals.candidates[1], v) THEN Rat(1, 1) ELSE Rat(0, 1))

\* C4, amended: when exactly one corpus word is the candidate set, every
\* vowel of that word that is not in used_letters has probability 1, and
\* every other vowel (not in the word, or in used_letters) is no key of the
\* mapping.
C4_UniqueCandidate ==
  (Called /\ locals.path = "pattern" /\ Len(locals.candidates) = 1) =>
    \A v \in VowelSet :
      IF contains(locals.candidates[1], v) /\ v \notin used_letters
      THEN v \in chars(locals.probs.keys)
           /\ RatEq(locals.probs.val[v], Rat(1, 1))
      ELSE v \notin chars(locals.probs.keys)

C4_Witness ==
  /\ Called
  /\ locals.path = "pattern"
  /\ locals.candidates = << <<"A", "E">> >>
  /\ "E" \in used_letters
  /\ locals.probs.keys = <<"A">>

NoVowelReasons ==
  { <<"No valid vowels remaining.">>,
    <<"Pattern match: No vowels appear in candidates.">> }

BothMappingsEmpty ==
  LET got == _get_candidates(this, board_pattern, used_letters)
  IN  /\ ~got.raised
      /\ _vowel_probabilities(this, got.value, used_letters).keys = <<>>
      /\ _fallback_stats(this, board_pattern, used_letters).keys = <<>>

\* C5, as claimed: with all five vowels in used_letters both mappings are
\* empty and should_buy_vowel returns decision False, vowel None and a reason
\* saying that no vowels remain, for every pattern (and amount of money).
C5_Original ==
  (Called /\ VowelSet \subseteq used_letters) =>
    /\ BothMappingsEmpty
    /\ ~ret.raised
    /\ ret.value.decision = FALSE
    /\ ret.value.suggested_vowel = None
    /\ ret.value.reason \in NoVowelReasons

\* C5, amended: with all five vowels in used_letters both mappings are empty
\* and should_buy_vowel returns decision False and vowel None; the reason is
\* "No valid vowels remaining." (no candidate) or "Pattern match: No vowels
\* appear in candidates." (some candidate) when current_money >= vowel_cost,
\* and the Finance rejection's "Insufficient money to buy a vowel." when
\* current_money < vowel_cost.
C5_AllVowelsUsed ==
  (Called /\ VowelSet \subseteq used_letters) =>
    /\ BothMappingsEmpty
    /\ ~ret.raised
    /\ ret.value.decision = FALSE
    /\ ret.value.suggested_vowel = None
    /\ IF ~Affordable
       THEN ret.value.reason = <<"Insufficient money to buy a vowel.">>
            /\ ret.value.strategy = "Finance"
       ELSE IF locals.candidates = <<>>
       THEN ret.value.reason = <<"No valid vowels remaining.">>
       ELSE ret.value.reason =
              <<"Pattern match: No vowels appear in candidates.">>

C5_Witness ==
  /\ Called
  /\ VowelSet \subseteq used_letters
  /\ Affordable
  /\ locals.path = "pattern"
  /\ Len(locals.candidates) = 3
  /\ ret.value.reason = <<"Pattern match: No vowels appear in candidates.">>

\* What C6 says of a fallback call; highest: whether the suggested vowel is
\* claimed to be the unused vowel of highest frequency.
FallbackOutcome(highest) ==
  LET r == ret.value
      t == Len(Clean)
  IN  IF Unused = {} \/ t = 0
      THEN /\ r.decision = FALSE
           /\ r.suggested_vowel = None
           /\ r.strategy = "Fallback"
           /\ RatEq(r.confidence, Rat(1, 1))
      ELSE /\ r.strategy = "Fallback"
           /\ r.suggested_vowel \in Unused
           /\ RatEq(r.confidence, Score(r.suggested_vowel, Blanks, t))
           /\ \A v \in Unused : RatGE(r.confidence, Score(v, Blanks, t))
           /\ highest =>
                \A v \in Unused :
                  general_vowel_freq[v] <= general_vowel_freq[r.suggested_vowel]
           /\ r.decision <=> 100 * r.confidence.num > 15 * r.confidence.den
           /\ (Blanks = t /\ "E" \in Unused) =>
                /\ r.decision
                /\ r.suggested_vowel = "E"
                /\ RatEq(r.confidence, Rat(254, 1000))

\* C6, as claimed: with current_money >= vowel_cost and no candidate, reject
\* with "Fallback", confidence 1.0, vowel None when no vowel is unused or the
\* pattern is empty; otherwise suggest the unused vowel of highest frequency
\* with confidence = its score, accepting exactly when the score > 0.15.
C6_Original ==
  (Called /\ Affordable /\ locals.path = "fallback") => FallbackOutcome(TRUE)

\* C6, amended: as claimed (the pattern's length taken after its spaces are
\* removed), but the suggested vowel is the unused vowel of highest frequency
\* only when the pattern has a blank; with no blank every score is 0 and the
\* suggested vowel is some unused vowel, rejected with confidence 0.
C6_Fallback ==
  (Called /\ Affordable /\ locals.path = "fallback") =>
    /\ FallbackOutcome(Blanks > 0)
    /\ (Blanks = 0 /\ Unused # {} /\ Len(Clean) > 0) =>
         /\ ret.value.decision = FALSE
         /\ ret.value.confidence.num = 0

C6_Witness ==
  /\ Called
  /\ Affordable
  /\ locals.path = "fallback"
  /\ board_pattern = <<"_">>
  /\ "E" \notin used_letters
  /\ ret.value.decision
  /\ ret.value.suggested_vowel = "E"

reversed(seq) == [i \in 1..Len(seq) |-> seq[Len(seq) + 1 - i]]

\* C7, as claimed: the Recommendation, the choice among tied vowels included,
\* depends on nothing but the arguments and the corpus: an engine built on
\* the same corpus whose vowel set iterates in another order returns the same.
C7_Original ==
  (Called /\ locals.path = "pattern") =>
    ret = should_buy_vowel(WheelAI(corpus, reversed(vowels)), board_pattern,
                           used_letters, current_money)

\* C7, the part the code keeps: calling should_buy_vowel twice on the same
\* engine with the same arguments yields the same Recommendation in every
\* field, tied vowels included (the iteration order of the engine's vowel
\* set does not change between the calls).
C7_SameCallSameAnswer == (Called /\ calls >= 2) => ret = prev

C7_Witness ==
  /\ Called
  /\ calls >= 2
  /\ locals.path = "pattern"
  /\ \E a, b \in chars(locals.probs.keys) :
       /\ a # b
       /\ RatEq(locals.probs.val[a], ret.value.confidence)
       /\ RatEq(locals.probs.val[b], ret.value.confidence)

\* the letters revealed in the pattern
Revealed == {c \in chars(upper(Clean)) : isalpha(c)}

\* w is consistent with the board
Consistent(w) ==
  LET clean == upper(Clean)
  IN  /\ Len(w) = Len(clean)
      /\ \A i \in 1..Len(clean) :
           IF clean[i] = "_"
           THEN w[i] \notin Revealed /\ w[i] \notin used_letters
           ELSE w[i] = clean[i]

\* C8: _get_candidates returns, in corpus order, exactly the corpus words of
\* the length of the pattern (spaces removed, upper-cased) that have the
\* pattern's character at every non-blank position and, at every blank
\* position, a character that is neither revealed in the pattern nor in
\* used_letters; an empty result is a value, not an error.
C8_Candidates ==
  [][op' = "_get_candidates" =>
       /\ ~ret'.raised
       /\ ret'.value = SelectSeq(corpus, Consistent)
       /\ corpus' = corpus]_vars

C8_Witness ==
  /\ op = "_get_candidates"
  /\ board_pattern = <<"a", " ", "_">>
  /\ used_letters = {"C"}
  /\ ret.value = << <<"A", "B">> >>

\* the number of candidates that contain v
Containing(v) ==
  Cardinality({i \in 1..Len(arg_candidates) : contains(arg_candidates[i], v)})

\* C9: for a non-empty candidate list, the keys of _vowel_probabilities are
\* exactly the vowels not in used_letters that occur in some candidate, each
\* with the value (candidates containing it) / (candidates), a word counted
\* once; so every value is in (0, 1].
C9_Probabilities ==
  (op = "_vowel_probabilities" /\ arg_candidates # <<>>) =>
    LET d == ret.value
    IN  /\ chars(d.keys) = {v \in Unused : Containing(v) > 0}
        /\ Len(d.keys) = Cardinality(chars(d.keys))
        /\ DOMAIN d.val = chars(d.keys)
        /\ \A v \in chars(d.keys) :
             /\ d.val[v] = Rat(Containing(v), Len(arg_candidates))
             /\ 0 < d.val[v].num
             /\ d.val[v].num <= d.val[v].den

C9_Witness ==
  /\ op = "_vowel_probabilities"
  /\ Len(arg_candidates) = 3
  /\ used_letters = {"A"}
  /\ ret.value.keys = <<"E">>
  /\ ret.value.val["E"] = Rat(2, 3)

\* what C10 says the scores are, for the pattern p
FallbackScores(p) ==
  LET t == Len(p)
      b == Cardinality({i \in 1..t : p[i] = "_"})
      d == ret.value
  IN  /\ chars(d.keys) = Unused
      /\ DOMAIN d.val = Unused
      /\ \A v \in Unused : RatEq(d.val[v], Score(v, b, t))

\* C10, as claimed: the spaces of the pattern count toward its length and as
\* filled.
C10_Original ==
  (op = "_fallback_stats" /\ Len(board_pattern) > 0) =>
    FallbackScores(board_pattern)

\* C10, amended: for a pattern that is not empty once its spaces are removed,
\* every vowel not in used_letters scores frequency * information_need * 2,
\* with information_need = 1 - (non-blank characters / length), both counted
\* after removing the spaces: punctuation counts toward the length and as
\* filled, a space counts toward neither (five blanks separated by four
\* spaces have information_need 1); vowels in used_letters get no score.
C10_FallbackScores ==
  (op = "_fallback_stats" /\ Len(Clean) > 0) => FallbackScores(Clean)

C10_Witness ==
  /\ op = "_fallback_stats"
  /\ board_pattern = <<"_", " ", ".">>
  /\ used_letters = {"E"}
  /\ RatEq(ret.value.val["A"], Rat(82, 1000))

====
